---- MODULE Spec2Model ----
(***************************************************************************)
(* TallySync Manager, client layer: the authenticated request executor     *)
(* (assets/js/api.js), the page-load key bootstrap (unnamed/part_000), the *)
(* first-run check (unnamed/part_001), the connection settings             *)
(* (unnamed/part_004), the server-sent-events connector (unnamed/part_003) *)
(* and the company store (unnamed/part_002).                               *)
(*                                                                         *)
(* JavaScript values are tagged records: Null, NaN, Num(n), Str(s) for an  *)
(* opaque string, NumStr(d) for a string of decimal digits d and Text(c)   *)
(* for a string given character by character.                              *)
(***************************************************************************)
EXTENDS Integers, Sequences, FiniteSets, TLC

VARIABLES
    \* ---- part_003 (SSE client), part_002 (CompanyStore) ---------------
    started,      \* DOMContentLoaded has fired on this page
    companyItem,  \* localStorage['tallysync_company_id']
    sse,          \* _sse: Null or the id of an EventSource
    streams,      \* every EventSource object: [open, url]
    retryTimer,   \* _retryTimer: Null or the handle of the last setTimeout
    timers,       \* handles of the setTimeout callbacks still pending
    status,       \* what setSyncStatus last wrote: [state, text, arg]
    received,     \* sync_* events delivered to the listeners, in order, each
                  \* with whether its stream was the one _sse named
    notified,     \* CustomEvents dispatched on window, in order
    peakOpen,     \* most EventSources open at one instant in the last handler
    lastOp,       \* the handler that ran last, with its input
    clock,        \* ms since each retry timer was armed and since the last
                  \* transport failure, both counted up to RETRY_DELAY_MS
    \* ---- api.js, part_000 (runtime configuration) ---------------------
    apiKeyItem,   \* localStorage['tallysync_api_key']
    calls,        \* the logical apiFetch / apiFetchWithCount calls in flight
    boot,         \* the page-load bootstrap IIFE: "info" (waiting) or "done"
    session,      \* the page and the backend address: [apiItem, base,
                  \* firstRun, appInfo, reloadTimer, saved]
    apiStep       \* the step of api.js / part_000 / part_001 / part_004
                  \* that ran last

sseVars == <<started, companyItem, sse, streams, retryTimer, timers, status,
             received, notified, peakOpen, lastOp, clock>>
apiVars == <<apiKeyItem, calls, boot, session, apiStep>>
vars == <<sseVars, apiVars>>

(***************************************************************************)
(* Bounds of the model                                                     *)
(***************************************************************************)
MaxStreams == 2   \* EventSource objects that can exist at once
MaxTimers == 2    \* setTimeout callbacks that can be pending at once
MaxEvents == 2    \* sync_* events delivered in one run
MaxCalls == 2     \* logical API calls in one run
TicksPerDelay == 2  \* clock ticks that make up RETRY_DELAY_MS
MaxLen == 2       \* characters typed into a field of the settings page

StreamIds == 1..MaxStreams
TimerIds == 1..MaxTimers
CallIds == 1..MaxCalls

(***************************************************************************)
(* JavaScript values                                                       *)
(***************************************************************************)
Null == [t |-> "null"]
NaN == [t |-> "NaN"]
Num(n) == [t |-> "number", n |-> n]
Str(s) == [t |-> "string", s |-> s]
NumStr(d) == [t |-> "numstr", d |-> d]
Text(c) == [t |-> "text", c |-> c]
EmptyObj == [k \in {} |-> Null]

Truthy(v) ==
    CASE v.t = "null" -> FALSE
      [] v.t = "NaN" -> FALSE
      [] v.t = "number" -> v.n # 0
      [] v.t = "string" -> v.s # ""
      [] v.t = "numstr" -> Len(v.d) > 0
      [] v.t = "text" -> Len(v.c) > 0
      [] OTHER -> TRUE

\* The decimal digits of a non-negative integer, most significant first.
RECURSIVE Digits(_)
Digits(n) == IF n < 10 THEN <<n>> ELSE Append(Digits(n \div 10), n % 10)

\* String(v) for the values CompanyStore.set is given.
String(v) ==
    CASE v.t = "number" -> NumStr(Digits(v.n))
      [] v.t = "NaN" -> Str("NaN")
      [] v.t = "null" -> Str("null")
      [] OTHER -> v

\* parseInt(v, 10) of a stored string: the value of its leading digits.
RECURSIVE DigitsValue(_)
DigitsValue(d) ==
    IF d = <<>> THEN 0
    ELSE 10 * DigitsValue(SubSeq(d, 1, Len(d) - 1)) + d[Len(d)]

ParseInt(v) ==
    IF v.t = "numstr" /\ Len(v.d) > 0 THEN Num(DigitsValue(v.d)) ELSE NaN

Max(a, b) == IF a >= b THEN a ELSE b

(***************************************************************************)
(* part_002: CompanyStore                                                  *)
(***************************************************************************)
CompanyStore_get(item) == IF Truthy(item) THEN ParseInt(item) ELSE Null

\* The store after set(id): setItem(String(id)) or removeItem.
CompanyStore_stored(id) == IF Truthy(id) THEN String(id) ELSE Null

\* What the company selector passes to CompanyStore.set.
SelectableIds == {Null, NaN, Num(0), Num(1), Num(12)}
PersistedItems == {Null, String(Num(1)), String(Num(12))}

(***************************************************************************)
(* part_003: the SSE sync client                                           *)
(***************************************************************************)
SSE_PATH == "/api/events"
RETRY_DELAY_MS == 5000

\* Mutant of SseUrl: the company scope is left out of the URL.
SseUrl_Unscoped(companyId) == [path |-> SSE_PATH]

\* part_003:29
SseUrl(companyId) ==
    IF Truthy(companyId)
    THEN [path |-> SSE_PATH, company_id |-> String(companyId)]
    ELSE [path |-> SSE_PATH]

OpenStreams(ss) == {s \in StreamIds : ss[s].open}

\* An EventSource that is closed (or was never made) delivers nothing more.
NoStream == [open |-> FALSE, url |-> [path |-> ""]]

\* Mutant of CloseStream: close() leaves the stream open.
CloseStream_Kept(ss, s) == ss

\* EventSource.close()
CloseStream(ss, s) == [ss EXCEPT ![s] = NoStream]

\* new EventSource(url): an object distinct from every other one in use.
FreshStreams(ss, cur) == {s \in StreamIds : ~ss[s].open /\ Num(s) # cur}
NewStream(ss, cur) == CHOOSE s \in FreshStreams(ss, cur) :
                          \A o \in FreshStreams(ss, cur) : s <= o

\* Mutant of SetSyncStatus: the label is written without its time.
SetSyncStatus_NoTime(state, text, arg) ==
    [state |-> state, text |-> text, arg |-> Null]

\* part_003:18-23; arg is the value the relative time of the label is
\* computed from
SetSyncStatus(state, text, arg) == [state |-> state, text |-> text, arg |-> arg]

\* Mutant of ClosePrevious: the previous stream is dropped without close().
ClosePrevious_Skipped(ss, cur) == ss

\* part_003:26  if (_sse) { _sse.close(); _sse = null; }
ClosePrevious(ss, cur) == IF Truthy(cur) THEN CloseStream(ss, cur.n) ELSE ss

\* part_003:25-68 connectSSE(), reading the company store as it is at the call
connectSSE(item) ==
    LET closed == ClosePrevious(streams, sse)
        url == SseUrl(CompanyStore_get(item))
        id == NewStream(streams, sse)
        opened == [closed EXCEPT ![id] = [open |-> TRUE, url |-> url]]
    IN  /\ FreshStreams(streams, sse) # {}
        /\ status' = SetSyncStatus("syncing", "Connecting...", Null)
        /\ streams' = opened
        /\ sse' = Num(id)
        /\ peakOpen' = Max(Cardinality(OpenStreams(closed)),
                           Cardinality(OpenStreams(opened)))

\* part_003:76-78
DOMContentLoaded ==
    /\ ~started
    /\ started' = TRUE
    /\ connectSSE(companyItem)
    /\ lastOp' = [op |-> "DOMContentLoaded"]
    /\ UNCHANGED <<companyItem, retryTimer, timers, received, notified>>
    /\ UNCHANGED clock
    /\ UNCHANGED apiVars

\* Mutant of CompanyChanged: the listener connects with the company that
\* was stored before the selection.
CompanyChanged_StaleRead(id) ==
    /\ companyItem' = CompanyStore_stored(id)
    /\ connectSSE(companyItem)
    /\ lastOp' = [op |-> "company:changed", id |-> id, prev |-> sse]
    /\ UNCHANGED <<started, retryTimer, timers, received, notified>>
    /\ UNCHANGED clock
    /\ UNCHANGED apiVars

\* part_002:23-27 CompanyStore.set(id), and its listener part_003:71-73
CompanyChanged(id) ==
    /\ companyItem' = CompanyStore_stored(id)
    /\ connectSSE(companyItem')
    /\ lastOp' = [op |-> "company:changed", id |-> id, prev |-> sse]
    /\ UNCHANGED <<started, retryTimer, timers, received, notified>>
    /\ UNCHANGED clock
    /\ UNCHANGED apiVars

\* clearTimeout(handle)
ClearTimeout(pending, handle) ==
    IF handle.t = "number" THEN pending \ {handle.n} ELSE pending

\* part_003:35-38
OnConnected(s) ==
    /\ streams[s].open
    /\ status' = SetSyncStatus("", "Live", Null)
    /\ timers' = ClearTimeout(timers, retryTimer)
    /\ peakOpen' = Cardinality(OpenStreams(streams))
    /\ lastOp' = [op |-> "connected"]
    /\ UNCHANGED <<started, companyItem, sse, streams, retryTimer, received,
                   notified>>
    /\ UNCHANGED clock
    /\ UNCHANGED apiVars

\* JSON.parse of an object text given as its members, in order.
RECURSIVE JSONparse(_)
JSONparse(members) ==
    IF members = <<>> THEN EmptyObj
    ELSE LET m == members[Len(members)]
         IN  (m[1] :> m[2]) @@ JSONparse(SubSeq(members, 1, Len(members) - 1))

SyncCompleteData ==
    { << <<"synced_at", "t1">>, <<"records", 42>>, <<"company_name", "Acme">> >>,
      << <<"synced_at", "t2">>, <<"records", 7>>, <<"company_name", "Beta">> >> }
SyncErrorData == { << <<"error", "Tally offline">> >> }

\* Mutant of DispatchEvent: the notification is dispatched twice.
DispatchEvent_Twice(log, type, detail) ==
    Append(Append(log, [type |-> type, detail |-> detail]),
           [type |-> type, detail |-> detail])

\* window.dispatchEvent(new CustomEvent(type, { detail }))
DispatchEvent(log, type, detail) ==
    Append(log, [type |-> type, detail |-> detail])

\* part_003:40-48
OnSyncComplete(s, text) ==
    /\ streams[s].open
    /\ Len(received) < MaxEvents
    /\ received' = Append(received, [current |-> (sse = Num(s)),
                                     type |-> "sync_complete", data |-> text])
    /\ LET data == JSONparse(text)
       IN  /\ status' = SetSyncStatus("", "Synced", Str(data["synced_at"]))
           /\ notified' = DispatchEvent(notified, "sync:complete", data)
    /\ peakOpen' = Cardinality(OpenStreams(streams))
    /\ lastOp' = [op |-> "sync_complete"]
    /\ UNCHANGED <<started, companyItem, sse, streams, retryTimer, timers>>
    /\ UNCHANGED clock
    /\ UNCHANGED apiVars

\* part_003:50-55
OnSyncError(s, text) ==
    /\ streams[s].open
    /\ Len(received) < MaxEvents
    /\ received' = Append(received, [current |-> (sse = Num(s)),
                                     type |-> "sync_error", data |-> text])
    /\ LET data == JSONparse(text)
       IN  /\ status' = SetSyncStatus("error", "Sync error", Null)
           /\ notified' = DispatchEvent(notified, "sync:error", data)
    /\ peakOpen' = Cardinality(OpenStreams(streams))
    /\ lastOp' = [op |-> "sync_error"]
    /\ UNCHANGED <<started, companyItem, sse, streams, retryTimer, timers>>
    /\ UNCHANGED clock
    /\ UNCHANGED apiVars

\* Mutant of OnHeartbeat: the heartbeat marks the stream live, as connected
\* does.
OnHeartbeat_MarksLive(s) ==
    /\ streams[s].open
    /\ status' = SetSyncStatus("", "Live", Null)
    /\ timers' = ClearTimeout(timers, retryTimer)
    /\ peakOpen' = Cardinality(OpenStreams(streams))
    /\ lastOp' = [op |-> "heartbeat"]
    /\ UNCHANGED <<started, companyItem, sse, streams, retryTimer, received,
                   notified>>
    /\ UNCHANGED clock
    /\ UNCHANGED apiVars

\* part_003:57-59
OnHeartbeat(s) ==
    /\ streams[s].open
    /\ peakOpen' = Cardinality(OpenStreams(streams))
    /\ lastOp' = [op |-> "heartbeat"]
    /\ UNCHANGED <<started, companyItem, sse, streams, retryTimer, timers,
                   status, received, notified>>
    /\ UNCHANGED clock
    /\ UNCHANGED apiVars

\* setTimeout(connectSSE, RETRY_DELAY_MS): a handle no pending timer has
NewTimer(pending) == CHOOSE t \in TimerIds \ pending :
                         \A o \in TimerIds \ pending : t <= o

\* Mutant of ArmRetry: the failure handler schedules no reconnect.
ArmRetry_Never(pending) == pending

\* part_003:66
ArmRetry(pending) == pending \cup {NewTimer(pending)}

\* part_003:61-67 _sse.onerror; the handler closes whatever _sse names, and
\* with _sse null its _sse.close() throws after the status is written
OnErrorHandler(s) ==
    /\ streams[s].open
    /\ TimerIds \ timers # {}
    /\ status' = SetSyncStatus("error", "Disconnected", Null)
    /\ IF Truthy(sse)
       THEN /\ streams' = CloseStream(streams, sse.n)
            /\ sse' = Null
            /\ timers' = ArmRetry(timers)
            /\ retryTimer' = IF timers' = timers THEN retryTimer
                             ELSE Num(CHOOSE t \in timers' : t \notin timers)
       ELSE UNCHANGED <<streams, sse, timers, retryTimer>>
    /\ peakOpen' = Cardinality(OpenStreams(streams))
    /\ lastOp' = [op |-> "error", armed |-> timers' \ timers]
    /\ UNCHANGED <<started, companyItem, received, notified>>
    /\ UNCHANGED apiVars

OnError(s) == OnErrorHandler(s) /\ UNCHANGED clock

\* Mutant of RetryTimerFires: the callback runs and connects nothing.
RetryTimerFires_Dropped(t) ==
    /\ t \in timers
    /\ timers' = timers \ {t}
    /\ lastOp' = [op |-> "retry", prev |-> sse]
    /\ UNCHANGED <<started, companyItem, sse, streams, status, peakOpen,
                   retryTimer, received, notified>>
    /\ UNCHANGED clock
    /\ UNCHANGED apiVars

\* The callback of setTimeout(connectSSE, RETRY_DELAY_MS) runs.
RetryTimerFires(t) ==
    /\ t \in timers
    /\ timers' = timers \ {t}
    /\ connectSSE(companyItem)
    /\ lastOp' = [op |-> "retry", prev |-> sse]
    /\ UNCHANGED <<started, companyItem, retryTimer, received, notified>>
    /\ UNCHANGED clock
    /\ UNCHANGED apiVars

(***************************************************************************)
(* api.js: the request executor                                            *)
(***************************************************************************)
\* { ...a, ...b }: the members of b, and those of a that b does not have
Spread(a, b) == b @@ a

\* localStorage.getItem('tallysync_api_key') || ''
StoredKeyOrEmpty(item) == IF Truthy(item) THEN item ELSE Str("")

\* options.headers || {}
OptionHeaders(options) ==
    IF "headers" \in DOMAIN options THEN options.headers ELSE EmptyObj

\* api.js:16-18 (apiFetch) and api.js:63 (apiFetchWithCount): the headers
\* the executor builds
DefaultHeaders(options, item) ==
    Spread(("Content-Type" :> Str("application/json"))
               @@ ("X-API-Key" :> StoredKeyOrEmpty(item)),
           OptionHeaders(options))

\* api.js:19  fetch(url, { ...defaults, ...options })  and api.js:62-65
\* fetch(url, { headers: {...}, ...options }): the init object fetch is given
RequestInit(options, item) ==
    Spread([headers |-> DefaultHeaders(options, item)], options)

\* The X-API-Key header a request carries, Null when it carries none.
HeaderOf(init, name) ==
    IF "headers" \in DOMAIN init /\ name \in DOMAIN init.headers
    THEN init.headers[name] ELSE Null

IdleCall == [pc |-> "idle"]

\* The calls the pages make (Companies.list, Orders.list), and options
\* objects the executor accepts: none, a method, and the caller's own headers
\* that api.js:17 provides for.
CallKinds == { [fn |-> "apiFetch", path |-> "/api/companies"],
               [fn |-> "apiFetchWithCount", path |-> "/api/orders"] }
OptionsGiven == { EmptyObj,
                  [method |-> Str("POST")],
                  [headers |-> [Accept |-> Str("text/csv")]] }

\* The responses of the backend.
NoBody == [parses |-> FALSE, json |-> EmptyObj]
Json(obj) == [parses |-> TRUE, json |-> obj]
ErrorBodies == { NoBody, Json(EmptyObj),
                 Json([detail |-> Str("Invalid API key")]),
                 Json([message |-> Str("Server error")]) }
Responses ==
    { [status |-> 200, body |-> Json([id |-> Num(1)]), total |-> h] :
          h \in {Null, NumStr(<<1, 2>>)} }
    \cup { [status |-> 204, body |-> NoBody, total |-> Null] }
    \cup { [status |-> s, body |-> b, total |-> Null] :
               s \in {401, 500}, b \in ErrorBodies }

\* The replies to GET /api/info: no response (timeout, network error), a
\* non-2xx response, or a 2xx response with a body.
ServerKeys == {"old1", "new99"}
InfoReplies ==
    { [reached |-> FALSE, ok |-> FALSE, body |-> NoBody],
      [reached |-> TRUE, ok |-> FALSE, body |-> NoBody],
      [reached |-> TRUE, ok |-> TRUE, body |-> NoBody],
      [reached |-> TRUE, ok |-> TRUE, body |-> Json(EmptyObj)],
      [reached |-> TRUE, ok |-> TRUE, body |-> Json([api_key |-> Str("")])] }
    \cup { [reached |-> TRUE, ok |-> TRUE, body |-> Json([api_key |-> Str(k)])] :
               k \in ServerKeys }

\* response.ok
Ok(code) == code >= 200 /\ code <= 299

\* obj.name, undefined (here Null) when the object has no such member
Member(obj, name) == IF name \in DOMAIN obj THEN obj[name] ELSE Null

\* Mutant of ErrorMsg: body.message is preferred to body.detail.
ErrorMsg_MessageFirst(resp) ==
    LET fallback == Str("HTTP " \o ToString(resp.status))
    IN  IF ~resp.body.parses THEN fallback
        ELSE IF Truthy(Member(resp.body.json, "message"))
             THEN resp.body.json.message
        ELSE IF Truthy(Member(resp.body.json, "detail"))
             THEN resp.body.json.detail
        ELSE fallback

\* api.js:36-41 and api.js:67-68: the message of the Error thrown
ErrorMsg(resp) ==
    LET fallback == Str("HTTP " \o ToString(resp.status))
    IN  IF ~resp.body.parses THEN fallback
        ELSE IF Truthy(Member(resp.body.json, "detail"))
             THEN resp.body.json.detail
        ELSE IF Truthy(Member(resp.body.json, "message"))
             THEN resp.body.json.message
        ELSE fallback

Thrown(msg) == [kind |-> "error", message |-> msg]
Returned(value) == [kind |-> "value", value |-> value]

\* Mutant of Settle: 204 is not told apart, response.json() runs on the
\* empty body.
Settle_NoContentParsed(resp) ==
    IF ~Ok(resp.status) THEN Thrown(ErrorMsg(resp))
    ELSE IF resp.body.parses THEN Returned(resp.body.json)
    ELSE Thrown(Str("SyntaxError"))

\* api.js:35-46: what apiFetch settles with on a response it does not heal
\* (a 2xx body that does not parse makes response.json() reject)
Settle(resp) ==
    IF ~Ok(resp.status) THEN Thrown(ErrorMsg(resp))
    ELSE IF resp.status = 204 THEN Returned(Null)
    ELSE IF resp.body.parses THEN Returned(resp.body.json)
    ELSE Thrown(Str("SyntaxError"))

\* api.js:66-73: what apiFetchWithCount settles with
SettleWithCount(resp) ==
    IF ~Ok(resp.status) THEN Thrown(ErrorMsg(resp))
    ELSE IF resp.status # 204 /\ ~resp.body.parses THEN Thrown(Str("SyntaxError"))
    ELSE Returned([data |-> IF resp.status = 204 THEN Null ELSE resp.body.json,
                   total |-> ParseInt(IF Truthy(resp.total) THEN resp.total
                                      ELSE NumStr(<<0>>))])

\* Mutant of ShouldHeal: one retry allowance shared by all calls, taken
\* while any call heals or has retried.
ShouldHeal_Shared(code, retry) ==
    /\ code = 401
    /\ retry
    /\ \A c \in CallIds : calls[c].pc = "idle"
                             \/ (calls[c].pc = "fetch" /\ calls[c].n = 1)

\* Mutant of ShouldHeal: the _retry flag is not consulted.
ShouldHeal_Always(code, retry) == code = 401

\* api.js:22  response.status === 401 && _retry
ShouldHeal(code, retry) == code = 401 /\ retry

\* api.js:24-27 and part_000:16-19: the api_key of an info reply, Null when
\* the fetch throws, the response is not ok, the body does not parse or the
\* key is missing or empty
InfoKey(reply) ==
    IF reply.reached /\ reply.ok /\ reply.body.parses
       /\ Truthy(Member(reply.body.json, "api_key"))
    THEN reply.body.json.api_key
    ELSE Null

\* Mutant of HealFailed: no try/catch, the failure of the info fetch
\* rejects the call.
HealFailed_Surfaced(first, reply) ==
    IF reply.reached THEN Settle(first) ELSE Thrown(Str("TimeoutError"))

\* api.js:32-42: after a heal that obtained no key the catch swallows the
\* failure and the first response is handled as any other
HealFailed(first, reply) == Settle(first)

NoResponse == [status |-> 0, body |-> NoBody, total |-> Null]
NoReply == [reached |-> FALSE, ok |-> FALSE, body |-> NoBody]

\* api.js:13-19: one invocation of apiFetch (or api.js:59-65,
\* apiFetchWithCount) up to its fetch. asked is what the page called the
\* executor with, item the stored key the invocation reads, info the key a
\* heal has just obtained (Null on the first invocation).
Invoke(c, asked, path, options, retry, n, item, info) ==
    /\ calls' = [calls EXCEPT ![c] =
                    [pc |-> "fetch", asked |-> asked, path |-> path,
                     options |-> options, retry |-> retry, n |-> n,
                     first |-> NoResponse]]
    /\ apiStep' = [op |-> "send", call |-> c, asked |-> asked, path |-> path,
                   options |-> options, retry |-> retry, n |-> n,
                   init |-> RequestInit(options, item), stored |-> item,
                   info |-> info, before |-> apiKeyItem, base |-> session.base]

\* A page calls apiFetch(path, options) or apiFetchWithCount(path, options).
StartCall(c, kind, options) ==
    /\ calls[c].pc = "idle"
    /\ Invoke(c, [fn |-> kind.fn, path |-> kind.path, options |-> options],
              kind.path, options, TRUE, 1, apiKeyItem, Null)
    /\ UNCHANGED <<apiKeyItem, boot, session>>
    /\ UNCHANGED sseVars

\* The call settles: its promise resolves or rejects, and the call is over.
\* healing says that it settles on the reply to its info request.
Finish(c, resp, reply, outcome) ==
    /\ calls' = [calls EXCEPT ![c] = IdleCall]
    /\ apiStep' = [op |-> "done", call |-> c, fn |-> calls[c].asked.fn,
                   retry |-> calls[c].retry, n |-> calls[c].n,
                   healing |-> (calls[c].pc = "info"), last |-> resp,
                   reply |-> reply, outcome |-> outcome]

\* api.js:19-22 and 35-46: the response to a request of apiFetch arrives
Respond(c, resp) ==
    /\ calls[c].pc = "fetch"
    /\ calls[c].asked.fn = "apiFetch"
    /\ IF ShouldHeal(resp.status, calls[c].retry)
       THEN /\ calls' = [calls EXCEPT ![c].pc = "info", ![c].first = resp]
            /\ apiStep' = [op |-> "heal", call |-> c]
       ELSE Finish(c, resp, NoReply, Settle(resp))
    /\ UNCHANGED <<apiKeyItem, boot, session>>
    /\ UNCHANGED sseVars

\* api.js:62-73: the response to the request of apiFetchWithCount arrives
RespondWithCount(c, resp) ==
    /\ calls[c].pc = "fetch"
    /\ calls[c].asked.fn = "apiFetchWithCount"
    /\ Finish(c, resp, NoReply, SettleWithCount(resp))
    /\ UNCHANGED <<apiKeyItem, boot, session>>
    /\ UNCHANGED sseVars

\* api.js:29  apiFetch(path, options, false): the arguments of the retry
RetryArgs(path, options) == [path |-> path, options |-> options]

\* api.js:24-33: the info request of a healing call is answered or fails
HealReply(c, reply) ==
    /\ calls[c].pc = "info"
    /\ IF Truthy(InfoKey(reply))
       THEN /\ apiKeyItem' = InfoKey(reply)
            /\ LET args == RetryArgs(calls[c].path, calls[c].options)
               IN  Invoke(c, calls[c].asked, args.path, args.options, FALSE,
                          calls[c].n + 1, apiKeyItem', InfoKey(reply))
       ELSE /\ Finish(c, calls[c].first, reply,
                      HealFailed(calls[c].first, reply))
            /\ UNCHANGED apiKeyItem
    /\ UNCHANGED <<boot, session>>
    /\ UNCHANGED sseVars

(***************************************************************************)
(* part_000: the backend address and the page-load bootstrap               *)
(***************************************************************************)
DEFAULT_API == Str("http://localhost:8001")

\* part_000:9 (and api.js:9): localStorage.getItem('tallysync_api') ||
\* window.TALLYSYNC_API || 'http://localhost:8001' on a page that sets no
\* window.TALLYSYNC_API of its own
ResolveApi(item) == IF Truthy(item) THEN item ELSE DEFAULT_API

\* No connection has been saved on the settings page.
NoSave == [url |-> Null, key |-> Null, prevUrl |-> Null, prevKey |-> Null]

\* A page that has just been loaded: API_BASE is computed once (api.js:9),
\* initApp and initSettings have not run, no reload is scheduled.
PageLoad(item, saved) ==
    [apiItem |-> item, base |-> ResolveApi(item), firstRun |-> "idle",
     appInfo |-> "idle", reloadTimer |-> FALSE, saved |-> saved]

\* What a run of the key protocol made of the reply to its info request:
\* the key it read (Null when none) and whether the request failed (no
\* response, or a non-2xx response).
RunOf(key, reply) == [key |-> key, failed |-> ~(reply.reached /\ reply.ok)]

\* location.reload(): every call in flight ends with the page, and the page,
\* with its bootstrap, is loaded again
Reload(by, run, item) ==
    /\ calls' = [c \in CallIds |-> IdleCall]
    /\ boot' = "info"
    /\ session' = PageLoad(item, session.saved)
    /\ apiStep' = [op |-> "reload", by |-> by, run |-> run,
                   lost |-> {c \in CallIds : calls[c].pc # "idle"}]

\* Mutant of KeyDiffers: the key of the reply is not compared with the
\* stored one.
KeyDiffers_Always(key, item) == Truthy(key)

\* Mutant of KeyDiffers: only a missing key is replaced, a stale one is kept.
KeyDiffers_MissingOnly(key, item) == Truthy(key) /\ ~Truthy(item)

\* part_000:19  info.api_key && info.api_key !== localStorage.getItem(...)
KeyDiffers(key, item) == Truthy(key) /\ key # item

\* part_000:14-25: the info request of the page-load bootstrap is answered
\* or fails; location.reload() ends every call in flight and loads the page,
\* and with it the bootstrap, again
BootReply(reply) ==
    /\ boot = "info"
    /\ IF KeyDiffers(InfoKey(reply), apiKeyItem)
       THEN /\ apiKeyItem' = InfoKey(reply)
            /\ Reload("boot", RunOf(InfoKey(reply), reply), session.apiItem)
       ELSE /\ boot' = "done"
            /\ apiStep' = [op |-> "boot", run |-> RunOf(InfoKey(reply), reply)]
            /\ UNCHANGED <<apiKeyItem, calls, session>>
    /\ UNCHANGED sseVars

(***************************************************************************)
(* part_001: the first-run check of initApp                                *)
(***************************************************************************)
\* part_001:110-112: initApp calls _checkFirstRun, which returns at once
\* when a key is stored and otherwise asks /api/info
CheckFirstRun ==
    /\ session.firstRun = "idle"
    /\ session' = [session EXCEPT
                      !.firstRun = IF Truthy(apiKeyItem) THEN "done" ELSE "info"]
    /\ apiStep' = [op |-> "firstRun", asks |-> ~Truthy(apiKeyItem)]
    /\ UNCHANGED <<apiKeyItem, calls, boot>>
    /\ UNCHANGED sseVars

\* part_001:115-118  .then(r => r.json()).then(info => { if (info.api_key)
\* the api_key of the reply, Null when the fetch throws, the body does not
\* parse or the key is missing or empty; the status is not looked at
FirstRunKey(reply) ==
    IF reply.reached /\ reply.body.parses
       /\ Truthy(Member(reply.body.json, "api_key"))
    THEN reply.body.json.api_key
    ELSE Null

\* part_001:115-146: the info request of the first-run check is answered or
\* fails; the catch shows the "Cannot reach the backend server" banner
FirstRunReply(reply) ==
    /\ session.firstRun = "info"
    /\ IF Truthy(FirstRunKey(reply))
       THEN /\ apiKeyItem' = FirstRunKey(reply)
            /\ Reload("firstRun", RunOf(FirstRunKey(reply), reply),
                      ResolveApi(session.apiItem))
       ELSE /\ session' = [session EXCEPT !.firstRun = "done"]
            /\ apiStep' = [op |-> "firstRunDone",
                           run |-> RunOf(FirstRunKey(reply), reply),
                           banner |-> ~(reply.reached /\ reply.body.parses)]
            /\ UNCHANGED <<apiKeyItem, calls, boot>>
    /\ UNCHANGED sseVars

(***************************************************************************)
(* part_004: the connection settings                                       *)
(***************************************************************************)
\* String.prototype.trim on a string given by its characters; an opaque
\* string stands for one without surrounding white space
RECURSIVE TrimStart(_)
TrimStart(c) == IF c # <<>> /\ Head(c) = " " THEN TrimStart(Tail(c)) ELSE c

RECURSIVE TrimEnd(_)
TrimEnd(c) ==
    IF c # <<>> /\ c[Len(c)] = " " THEN TrimEnd(SubSeq(c, 1, Len(c) - 1)) ELSE c

\* Mutant of Trim: only the leading white space is removed.
Trim_StartOnly(v) == IF v.t = "text" THEN Text(TrimStart(v.c)) ELSE v

Trim(v) == IF v.t = "text" THEN Text(TrimEnd(TrimStart(v.c))) ELSE v

\* .replace(/\/$/, ''): one slash at the end is removed; an opaque string
\* stands for one that does not end in a slash
StripSlash(v) ==
    IF v.t = "text" /\ v.c # <<>> /\ v.c[Len(v.c)] = "/"
    THEN Text(SubSeq(v.c, 1, Len(v.c) - 1))
    ELSE v

\* part_004:368 and part_004:376  value.trim().replace(/\/$/, '')
NormalUrl(v) == StripSlash(Trim(v))

\* part_004:349-355: initSettings calls loadAppInfo, which reads the stored
\* key and awaits Info.get()
LoadAppInfo ==
    /\ session.appInfo = "idle"
    /\ session' = [session EXCEPT
                      !.appInfo = IF Truthy(apiKeyItem) THEN "key" ELSE "nokey"]
    /\ apiStep' = [op |-> "appInfo"]
    /\ UNCHANGED <<apiKeyItem, calls, boot>>
    /\ UNCHANGED sseVars

\* api.js:89 Info.get() is apiFetch('/api/info'): what it settles with on a
\* reply of the public info endpoint
InfoGet(reply) ==
    IF ~reply.reached THEN Thrown(Str("TypeError"))
    ELSE Settle([status |-> IF reply.ok THEN 200 ELSE 500, body |-> reply.body,
                 total |-> Null])

\* part_004:357-372: Info.get() settles; without a stored key the key of
\* the payload is saved, and with it the content of the backend-url field
AppInfoReply(reply, field) ==
    /\ session.appInfo \in {"key", "nokey"}
    /\ LET info == InfoGet(reply)
           saves == /\ session.appInfo = "nokey"
                    /\ info.kind = "value"
                    /\ Truthy(Member(info.value, "api_key"))
           currentUrl == NormalUrl(field)
       IN  /\ apiKeyItem' = IF saves THEN info.value.api_key ELSE apiKeyItem
           /\ session' = [session EXCEPT
                             !.appInfo = "done",
                             !.apiItem = IF saves /\ Truthy(currentUrl)
                                         THEN currentUrl ELSE @]
           /\ apiStep' = [op |-> "appInfoDone", saves |-> saves]
    /\ UNCHANGED <<calls, boot>>
    /\ UNCHANGED sseVars

\* Mutant of Accepted: the key field is not validated.
Accepted_UrlOnly(url, key) == Truthy(url)

\* part_004:378-379  if (!url) ... return;  if (!key) ... return;
Accepted(url, key) == Truthy(url) /\ Truthy(key)

\* part_004:375-385: the Save button, bound once loadAppInfo has returned
\* (part_004:343-347), with the content of the two fields
SaveConnection(rawUrl, rawKey) ==
    /\ session.appInfo = "done"
    /\ LET url == NormalUrl(rawUrl)
           key == Trim(rawKey)
           accepted == Accepted(url, key)
       IN  /\ apiStep' = [op |-> "save", url |-> rawUrl, key |-> rawKey,
                          accepted |-> accepted]
           /\ IF accepted
              THEN /\ apiKeyItem' = key
                   /\ session' = [session EXCEPT
                                     !.apiItem = url,
                                     !.reloadTimer = TRUE,
                                     !.saved = [url |-> url, key |-> key,
                                                prevUrl |-> session.base,
                                                prevKey |-> apiKeyItem]]
              ELSE UNCHANGED <<apiKeyItem, session>>
    /\ UNCHANGED <<calls, boot>>
    /\ UNCHANGED sseVars

\* part_004:384  setTimeout(() => location.reload(), 900)
SaveReloadFires ==
    /\ session.reloadTimer
    /\ Reload("save", RunOf(Null, NoReply), session.apiItem)
    /\ UNCHANGED apiKeyItem
    /\ UNCHANGED sseVars

ApiInit ==
    /\ apiKeyItem \in {Null} \cup {Str(k) : k \in ServerKeys}
    /\ calls = [c \in CallIds |-> IdleCall]
    /\ boot = "info"
    /\ session = PageLoad(Null, NoSave)
    /\ apiStep = [op |-> "load"]

\* No timer has been armed and no stream has failed.
NoClock == [elapsed |-> [t \in TimerIds |-> 0], sinceDrop |-> RETRY_DELAY_MS]

SseInit ==
    /\ started = FALSE
    /\ companyItem \in PersistedItems
    /\ sse = Null
    /\ streams = [s \in StreamIds |-> NoStream]
    /\ retryTimer = Null
    /\ timers = {}
    /\ status = SetSyncStatus("", "", Null)
    /\ received = <<>>
    /\ notified = <<>>
    /\ peakOpen = 0
    /\ lastOp = [op |-> "load"]
    /\ clock = NoClock

SseIdle ==
    /\ started = FALSE
    /\ companyItem = Null
    /\ sse = Null
    /\ streams = [s \in StreamIds |-> NoStream]
    /\ retryTimer = Null
    /\ timers = {}
    /\ status = SetSyncStatus("", "", Null)
    /\ received = <<>>
    /\ notified = <<>>
    /\ peakOpen = 0
    /\ lastOp = [op |-> "load"]
    /\ clock = NoClock

ApiIdle ==
    /\ apiKeyItem = Null
    /\ calls = [c \in CallIds |-> IdleCall]
    /\ boot = "done"
    /\ session = PageLoad(Null, NoSave)
    /\ apiStep = [op |-> "load"]

NextSSE ==
    \/ DOMContentLoaded
    \/ \E id \in SelectableIds : CompanyChanged(id)
    \/ \E s \in StreamIds : OnConnected(s)
    \/ \E s \in StreamIds, d \in SyncCompleteData : OnSyncComplete(s, d)
    \/ \E s \in StreamIds, d \in SyncErrorData : OnSyncError(s, d)
    \/ \E s \in StreamIds : OnHeartbeat(s)
    \/ \E s \in StreamIds : OnError(s)
    \/ \E t \in TimerIds : RetryTimerFires(t)

InitSSE == SseInit /\ ApiIdle

SpecSSE == InitSSE /\ [][NextSSE]_vars

NextApi ==
    \/ \E c \in CallIds, k \in CallKinds, o \in OptionsGiven : StartCall(c, k, o)
    \/ \E c \in CallIds, r \in Responses : Respond(c, r)
    \/ \E c \in CallIds, r \in Responses : RespondWithCount(c, r)
    \/ \E c \in CallIds, r \in InfoReplies : HealReply(c, r)
    \/ \E r \in InfoReplies : BootReply(r)

InitApi == ApiInit /\ SseIdle

SpecApi == InitApi /\ [][NextApi]_vars

(***************************************************************************)
(* The whole client session: the executor, the page-load bootstrap, the    *)
(* first-run check and the settings page, against a backend whose key may  *)
(* change at any time.                                                     *)
(***************************************************************************)
\* The replies to GET /api/info, a non-2xx response with a JSON body among
\* them.
SessionReplies ==
    InfoReplies
    \cup { [reached |-> TRUE, ok |-> FALSE,
            body |-> Json([api_key |-> Str("new99")])] }

\* What the user leaves in the backend-url and api-key fields.
LAN_API == Str("http://192.168.1.10:8001")
TypedUrls == {LAN_API, Text(<<" ">>)}
TypedKeys == {Str("new99"), Text(<<>>)}

\* Calls without options on a backend that accepts the key or answers 401
\* without a body of interest; the settings page issues its calls one at a
\* time.
SessionCalls == {c \in CallIds : \A d \in CallIds : c <= d}
SessionKinds == {k \in CallKinds : k.fn = "apiFetch"}
SessionResponses ==
    {r \in Responses : r.status \in {200, 401} /\ r.total = Null
                         /\ r.body \in {NoBody, Json([id |-> Num(1)])}}

SessionInit ==
    /\ apiKeyItem \in {Null} \cup {Str(k) : k \in ServerKeys}
    /\ calls = [c \in CallIds |-> IdleCall]
    /\ boot = "info"
    /\ session \in {PageLoad(item, NoSave) : item \in {Null, LAN_API}}
    /\ apiStep = [op |-> "load"]

NextSession ==
    \/ \E c \in SessionCalls, k \in SessionKinds : StartCall(c, k, EmptyObj)
    \/ \E c \in SessionCalls, r \in SessionResponses : Respond(c, r)
    \/ \E c \in SessionCalls, r \in SessionReplies : HealReply(c, r)
    \/ \E r \in SessionReplies : BootReply(r)
    \/ CheckFirstRun
    \/ \E r \in SessionReplies : FirstRunReply(r)
    \/ LoadAppInfo
    \/ \E r \in SessionReplies, u \in TypedUrls : AppInfoReply(r, u)
    \/ \E u \in TypedUrls, k \in TypedKeys : SaveConnection(u, k)
    \/ SaveReloadFires

InitSession == SessionInit /\ SseIdle

SpecSession == InitSession /\ [][NextSession]_vars

(***************************************************************************)
(* One call at a time on a backend that answers with every kind of         *)
(* response: 2xx with and without a body, 401, 404 and 500 with bodies that *)
(* carry detail, message, both, an empty detail, or nothing.               *)
(***************************************************************************)
ErrorStatuses == {401, 404, 500}
RichBodies ==
    ErrorBodies
    \cup { Json([detail |-> Str(""), message |-> Str("Server error")]),
           Json([detail |-> Str("Invalid API key"),
                 message |-> Str("Server error")]) }
RichResponses ==
    Responses
    \cup { [status |-> s, body |-> b, total |-> Null] :
               s \in ErrorStatuses, b \in RichBodies }

NextReplies ==
    \/ \E c \in SessionCalls, k \in CallKinds : StartCall(c, k, EmptyObj)
    \/ \E c \in SessionCalls, r \in RichResponses : Respond(c, r)
    \/ \E c \in SessionCalls, r \in RichResponses : RespondWithCount(c, r)
    \/ \E c \in SessionCalls, r \in InfoReplies : HealReply(c, r)
    \/ \E r \in InfoReplies : BootReply(r)

SpecReplies == InitApi /\ [][NextReplies]_vars

(***************************************************************************)
(* dashboard.js:27-34: calls that a page starts together (Promise.all) and *)
(* that are in flight side by side.                                        *)
(***************************************************************************)
NextCalls ==
    \/ \E c \in CallIds, k \in CallKinds : StartCall(c, k, EmptyObj)
    \/ \E c \in CallIds, r \in SessionResponses : Respond(c, r)
    \/ \E c \in CallIds, r \in SessionResponses : RespondWithCount(c, r)
    \/ \E c \in CallIds, r \in InfoReplies : HealReply(c, r)
    \/ \E r \in InfoReplies : BootReply(r)

SpecCalls == InitApi /\ [][NextCalls]_vars

(***************************************************************************)
(* The settings page between two page loads, with the address typed        *)
(* character by character (white space, slashes, other characters) and     *)
(* the key empty, blank, plain or padded with white space.                 *)
(***************************************************************************)
RECURSIVE Strings(_, _)
Strings(chars, n) ==
    IF n = 0 THEN {<<>>}
    ELSE LET shorter == Strings(chars, n - 1)
         IN  shorter \cup {Append(s, ch) : s \in shorter, ch \in chars}

FieldUrls == {Text(c) : c \in Strings({" ", "/", "a"}, MaxLen)}
FieldKeys == {Text(<<>>), Text(<<" ">>), Text(<<"k">>), Text(<<" ", "k", " ">>)}

NextSave ==
    \/ LoadAppInfo
    \/ \E r \in SessionReplies, u \in FieldUrls : AppInfoReply(r, u)
    \/ \E u \in FieldUrls, k \in FieldKeys : SaveConnection(u, k)

SpecSave == InitSession /\ [][NextSave]_vars

(***************************************************************************)
(* The session without a user typing keys, against a backend whose key     *)
(* stays the same: every info reply that carries a key carries that key.   *)
(***************************************************************************)
FixedServerKey == Str("new99")
FixedReplies ==
    {r \in SessionReplies :
        (r.body.parses /\ "api_key" \in DOMAIN r.body.json)
            => r.body.json.api_key = FixedServerKey}

NextFixedKey ==
    \/ \E c \in SessionCalls, k \in SessionKinds : StartCall(c, k, EmptyObj)
    \/ \E c \in SessionCalls, r \in SessionResponses : Respond(c, r)
    \/ \E c \in SessionCalls, r \in FixedReplies : HealReply(c, r)
    \/ \E r \in FixedReplies : BootReply(r)
    \/ CheckFirstRun
    \/ \E r \in FixedReplies : FirstRunReply(r)
    \/ LoadAppInfo
    \/ \E r \in FixedReplies, u \in TypedUrls : AppInfoReply(r, u)

SpecFixedKey == InitSession /\ [][NextFixedKey]_vars

(***************************************************************************)
(* part_003 with time: setTimeout runs its callback no sooner than the     *)
(* delay it was given.                                                     *)
(***************************************************************************)
TickMs == (RETRY_DELAY_MS + TicksPerDelay - 1) \div TicksPerDelay

Later(ms) == IF ms + TickMs >= RETRY_DELAY_MS THEN RETRY_DELAY_MS ELSE ms + TickMs

\* Time passes; a callback that is due may still run late.
Tick ==
    /\ \/ clock.sinceDrop < RETRY_DELAY_MS
       \/ \E t \in timers : clock.elapsed[t] < RETRY_DELAY_MS
    /\ clock' = [elapsed |-> [t \in TimerIds |->
                                 IF t \in timers THEN Later(clock.elapsed[t])
                                 ELSE clock.elapsed[t]],
                 sinceDrop |-> Later(clock.sinceDrop)]
    /\ UNCHANGED <<started, companyItem, sse, streams, retryTimer, timers,
                   status, received, notified, peakOpen, lastOp>>
    /\ UNCHANGED apiVars

\* part_003:61-67 with the clock: the failure is now, the timer armed now
TimedOnError(s) ==
    /\ OnErrorHandler(s)
    /\ clock' = [elapsed |-> [t \in TimerIds |->
                                 IF t \in timers' \ timers THEN 0
                                 ELSE clock.elapsed[t]],
                 sinceDrop |-> 0]

\* part_003:66 setTimeout(connectSSE, RETRY_DELAY_MS): the callback runs once
\* the delay has passed
TimedRetryTimerFires(t) ==
    /\ clock.elapsed[t] >= RETRY_DELAY_MS
    /\ RetryTimerFires(t)

NextTimed ==
    \/ DOMContentLoaded
    \/ \E id \in SelectableIds : CompanyChanged(id)
    \/ \E s \in StreamIds : OnConnected(s)
    \/ \E s \in StreamIds, d \in SyncCompleteData : OnSyncComplete(s, d)
    \/ \E s \in StreamIds, d \in SyncErrorData : OnSyncError(s, d)
    \/ \E s \in StreamIds : OnHeartbeat(s)
    \/ \E s \in StreamIds : TimedOnError(s)
    \/ \E t \in TimerIds : TimedRetryTimerFires(t)
    \/ Tick

SpecTimed == InitSSE /\ [][NextTimed]_vars

\* The event loop runs every pending timer callback unless it is cleared.
FairSSE == SpecSSE /\ WF_vars(\E t \in TimerIds : RetryTimerFires(t))

(***************************************************************************)
(* Properties of the event stream connector                                *)
(***************************************************************************)

\* C5: at every instant, also inside a handler, at most one EventSource is
\* open, and the open one is the one _sse names.
C5_AtMostOneStreamOpen ==
    /\ Cardinality(OpenStreams(streams)) <= 1
    /\ peakOpen <= 1
    /\ \A s \in OpenStreams(streams) : sse = Num(s)

\* A scope change made while a stream was open has replaced that stream.
C5_Witness ==
    /\ lastOp.op = "company:changed"
    /\ Truthy(lastOp.prev)
    /\ Cardinality(OpenStreams(streams)) = 1

\* C6: immediately after connectSSE has run (page start, scope change or
\* retry timer) no retry timer is pending.
C6_NoTimerAfterConnect ==
    lastOp.op \in {"DOMContentLoaded", "company:changed", "retry"} => timers = {}

\* C7: each transport failure arms exactly one retry timer and two retry
\* timers are never pending together.
C7_OneRetryTimer ==
    /\ Cardinality(timers) <= 1
    /\ lastOp.op = "error" => Cardinality(lastOp.armed) = 1

\* C8: a transport failure leaves the connector in Error (status
\* "Disconnected", stream closed and dropped, retry timer armed), and
\* whenever the connector has no stream a new one is eventually opened.
C8_FailureThenReconnect ==
    /\ [](lastOp.op = "error" =>
            /\ status = SetSyncStatus("error", "Disconnected", Null)
            /\ sse = Null
            /\ OpenStreams(streams) = {}
            /\ retryTimer.t = "number"
            /\ retryTimer.n \in timers
            /\ Cardinality(lastOp.armed) = 1)
    /\ ((started /\ sse = Null) ~> (sse # Null /\ streams[sse.n].open))

\* A stream that had delivered events has failed: the connector is in Error
\* with its retry timer pending.
C8_Witness ==
    /\ lastOp.op = "error"
    /\ status.text = "Disconnected"
    /\ Len(received) > 0
    /\ sse = Null
    /\ Cardinality(timers) = 1

\* C9: after a scope change the previous stream is closed and exactly one
\* stream, newly opened, is open; its URL names the selected company, or has
\* no company_id when none is selected.
C9_ScopeChangeReopens ==
    lastOp.op = "company:changed" =>
        /\ sse.t = "number"
        /\ OpenStreams(streams) = {sse.n}
        /\ peakOpen <= 1
        /\ sse # lastOp.prev
        /\ Truthy(lastOp.prev) => ~streams[lastOp.prev.n].open
        /\ status.text = "Connecting..."
        /\ streams[sse.n].url.path = SSE_PATH
        /\ IF lastOp.id.t = "number" /\ lastOp.id.n # 0
           THEN /\ "company_id" \in DOMAIN streams[sse.n].url
                /\ streams[sse.n].url.company_id.t = "numstr"
                /\ DigitsValue(streams[sse.n].url.company_id.d) = lastOp.id.n
           ELSE "company_id" \notin DOMAIN streams[sse.n].url

\* Company 12 selected while a stream was open in Live.
C9_Witness ==
    /\ lastOp.op = "company:changed"
    /\ lastOp.id = Num(12)
    /\ Truthy(lastOp.prev)
    /\ "company_id" \in DOMAIN streams[sse.n].url

NotificationType(type) ==
    IF type = "sync_complete" THEN "sync:complete" ELSE "sync:error"

\* C10: the notifications dispatched are the sync events received, one for
\* one and in order, each from the stream that was current and each carrying
\* exactly the members of the event's payload.
C10_NotificationsMatchEvents ==
    /\ Len(notified) = Len(received)
    /\ \A i \in 1..Len(received) :
        /\ received[i].current
        /\ notified[i].type = NotificationType(received[i].type)
        /\ DOMAIN notified[i].detail =
               {received[i].data[k][1] : k \in 1..Len(received[i].data)}
        /\ \A k \in 1..Len(received[i].data) :
               notified[i].detail[received[i].data[k][1]] = received[i].data[k][2]

\* sync_complete {records: 42, company_name: "Acme"} then a sync_error.
C10_Witness ==
    /\ Len(notified) = 2
    /\ notified[1].type = "sync:complete"
    /\ notified[1].detail["records"] = 42
    /\ notified[1].detail["company_name"] = "Acme"
    /\ notified[2].type = "sync:error"
    /\ status.text = "Sync error"

(***************************************************************************)
(* Properties of the request executor                                      *)
(***************************************************************************)
\* An info reply that carries a usable api_key.
SuppliesKey(reply) ==
    /\ reply.reached
    /\ reply.ok
    /\ reply.body.parses
    /\ "api_key" \in DOMAIN reply.body.json
    /\ reply.body.json.api_key # Str("")

InFlight == {c \in CallIds : calls[c].pc # "idle"}

\* C1: a call whose first response is 401 and whose heal obtains a key
\* stores that key and sends exactly one more request, for the path and
\* options it was called with; what that request returns or fails with is
\* what the call settles with, and no third request is sent.
C1_HealRetriesOnce ==
    /\ \A c \in InFlight :
        /\ calls[c].n <= 2
        /\ calls[c].pc = "info" => calls[c].n = 1
    /\ (apiStep.op = "send" /\ apiStep.n > 1) =>
        /\ apiStep.n = 2
        /\ Truthy(apiStep.info)
        /\ apiKeyItem = apiStep.info
        /\ apiStep.path = apiStep.asked.path
        /\ apiStep.options = apiStep.asked.options
    /\ (apiStep.op = "done" /\ apiStep.healing) => ~SuppliesKey(apiStep.reply)
    /\ (apiStep.op = "done" /\ apiStep.n > 1) =>
        /\ apiStep.n = 2
        /\ ~apiStep.healing
        /\ apiStep.last.status = 204 => apiStep.outcome = Returned(Null)
        /\ (apiStep.last.status = 200 /\ apiStep.last.body.parses) =>
               apiStep.outcome = Returned(apiStep.last.body.json)
        /\ apiStep.last.status \in {401, 500} =>
               apiStep.outcome = Thrown(ErrorMsg(apiStep.last))

\* A healed call whose second response was 401 again has settled with it.
C1_Witness ==
    /\ apiStep.op = "done"
    /\ apiStep.n = 2
    /\ apiStep.last.status = 401
    /\ apiStep.outcome.kind = "error"

\* C2: a call whose first response is 401 and whose heal obtains no key
\* fails with the error of that 401 response, never with the failure of the
\* info request, and has requested its endpoint once.
C2_FailedHealSurfaces401 ==
    (apiStep.op = "done" /\ apiStep.healing) =>
        /\ ~SuppliesKey(apiStep.reply)
        /\ apiStep.n = 1
        /\ apiStep.last.status = 401
        /\ apiStep.outcome = Thrown(ErrorMsg(apiStep.last))

\* The info request timed out and the call failed with the 401's detail.
C2_Witness ==
    /\ apiStep.op = "done"
    /\ apiStep.healing
    /\ ~apiStep.reply.reached
    /\ apiStep.outcome = Thrown(Str("Invalid API key"))

\* C3: the retried request of a healed call carries X-API-Key equal to the
\* key the info endpoint has just returned.
C3_RetryCarriesNewKey ==
    (apiStep.op = "send" /\ apiStep.n > 1) =>
        HeaderOf(apiStep.init, "X-API-Key") = apiStep.info

\* C4: every request carries X-API-Key equal to the stored key, whatever
\* options the caller passes.
C4_EveryRequestCarriesKey ==
    apiStep.op = "send" =>
        HeaderOf(apiStep.init, "X-API-Key") = StoredKeyOrEmpty(apiStep.stored)

(***************************************************************************)
(* Properties of the reconnect delay                                       *)
(***************************************************************************)
\* C11: a transport failure sets the status to "Disconnected", and no retry
\* timer reconnects before RETRY_DELAY_MS have passed since the failure.
C11_NoReconnectBeforeDelay ==
    /\ lastOp.op = "error" => status.text = "Disconnected"
    /\ lastOp.op = "retry" => clock.sinceDrop >= RETRY_DELAY_MS

(***************************************************************************)
(* Properties of the key protocol: page-load bootstrap, first-run check    *)
(* and in-request heal                                                     *)
(***************************************************************************)
\* The run of the key protocol that a step completes: the place it ran in,
\* the key it obtained from a reply that did not fail, and whether its
\* info request failed.
KeyRun(step) ==
    CASE step.op \in {"boot", "firstRunDone"} ->
             [place |-> IF step.op = "boot" THEN "boot" ELSE "firstRun",
              key |-> IF step.run.failed THEN Null ELSE step.run.key,
              failed |-> step.run.failed]
      [] step.op = "reload" /\ step.by \in {"boot", "firstRun"} ->
             [place |-> step.by,
              key |-> IF step.run.failed THEN Null ELSE step.run.key,
              failed |-> step.run.failed]
      [] step.op = "done" /\ step.healing ->
             [place |-> "heal", key |-> InfoKey(step.reply),
              failed |-> ~(step.reply.reached /\ step.reply.ok)]
      [] step.op = "send" /\ step.n > 1 ->
             [place |-> "heal", key |-> step.info, failed |-> FALSE]
      [] OTHER -> [place |-> "none", key |-> Null, failed |-> FALSE]

\* The info request of the run failed: no response, or a non-2xx response.
InfoFailed(step) == KeyRun(step).place # "none" /\ KeyRun(step).failed

\* C12 as claimed: whenever a run of the key protocol obtains a key that
\* differs from the stored one, it stores the key and reloads the page, in
\* the page-load bootstrap, the first-run check and the in-request heal.
C12_DifferingKeyStoredAndReloads ==
    [][LET run == KeyRun(apiStep')
       IN  (run.place # "none" /\ Truthy(run.key) /\ run.key # apiKeyItem)
           => (apiKeyItem' = run.key /\ apiStep'.op = "reload")]_vars

\* C12, amended: a differing key is stored in every place; the page-load
\* bootstrap and the first-run check then reload the page, the in-request
\* heal does not reload but sends the call once more.
C12_DifferingKeyStored ==
    [][LET run == KeyRun(apiStep')
       IN  (run.place # "none" /\ Truthy(run.key) /\ run.key # apiKeyItem)
           => /\ apiKeyItem' = run.key
              /\ run.place \in {"boot", "firstRun"} => apiStep'.op = "reload"
              /\ run.place = "heal" =>
                     /\ apiStep'.op = "send" /\ apiStep'.n = 2
                     /\ calls'[apiStep'.call].pc = "fetch"
                     /\ UNCHANGED <<boot, session>>]_vars

C12_Witness ==
    /\ apiStep.op = "send" /\ apiStep.n = 2
    /\ apiStep.info # apiStep.before
    /\ apiKeyItem = apiStep.info
    /\ calls[apiStep.call].pc = "fetch"

\* The page has just been reloaded.
Reloaded == apiStep.op = "reload"

C13_FailedInfoIsNoOp ==
    [][InfoFailed(apiStep')
       => /\ apiKeyItem' = apiKeyItem
          /\ session'.apiItem = session.apiItem
          /\ apiStep'.op # "reload"]_vars

(***************************************************************************)
(* Properties of calls that run side by side                               *)
(***************************************************************************)
\* C15: every call, also one made through apiFetchWithCount, that gets 401
\* on its first request invokes the bootstrap before it settles.
C15_EveryCallHealsOn401 ==
    (apiStep.op = "done" /\ apiStep.n = 1 /\ apiStep.last.status = 401)
        => apiStep.healing

\* The step just taken belongs to call c.
StepOf(c, step) == step.op \in {"send", "heal", "done"} /\ step.call = c

\* C16: with calls in flight side by side each call sends at most two
\* requests and asks /api/info at most once, only after its first request;
\* a step of one call leaves every other call as it was, and an apiFetch
\* call never settles on a first 401 without its own heal, whatever the
\* other calls have done.
C16_RetryBudgetPerCall ==
    [][\A c \in CallIds :
          /\ (~StepOf(c, apiStep') /\ apiStep'.op # "reload")
                 => calls'[c] = calls[c]
          /\ calls'[c].pc # "idle" =>
                 /\ calls'[c].n \in {1, 2}
                 /\ calls'[c].n = 2 => ~calls'[c].retry
          /\ (calls'[c].pc = "info" /\ calls[c].pc # "info") =>
                 /\ calls[c].pc = "fetch"
                 /\ calls[c].n = 1
                 /\ calls[c].retry
          /\ (calls[c].pc = "info" /\ calls'[c].pc = "fetch") =>
                 /\ calls'[c].n = 2
                 /\ ~calls'[c].retry
          /\ (StepOf(c, apiStep') /\ apiStep'.op = "done"
                 /\ apiStep'.fn = "apiFetch" /\ apiStep'.n = 1
                 /\ apiStep'.last.status = 401)
                 => apiStep'.healing]_vars

\* One call asks /api/info while another has already retried.
C16_Witness ==
    \E c, d \in CallIds :
        /\ calls[c].pc = "info"
        /\ calls[d].pc = "fetch" /\ calls[d].n = 2
        /\ apiStep.op = "heal" /\ apiStep.call = c

\* C19: no call is lost: a page reload finds no call in flight.
C19_NoCallLost == apiStep.op = "reload" => apiStep.lost = {}

(***************************************************************************)
(* Properties of the stored credential                                     *)
(***************************************************************************)
\* C17: after a connection is saved no request combines the address of
\* before the save with the saved key, or the saved address with the key of
\* before the save.
C17_NoTornCredential ==
    (apiStep.op = "send" /\ session.saved # NoSave) =>
        LET s == session.saved
        IN  /\ ~(/\ apiStep.base = s.prevUrl /\ s.prevUrl # s.url
                  /\ apiStep.stored = s.key /\ s.key # s.prevKey)
            /\ ~(/\ apiStep.base = s.url /\ s.url # s.prevUrl
                  /\ apiStep.stored = s.prevKey /\ s.prevKey # s.key)

\* What a read of the store returns: the address a page load resolves
\* (part_000:9) and the key a request reads (api.js:15).
ReadUrl == ResolveApi(session.apiItem)
ReadKey == StoredKeyOrEmpty(apiKeyItem)

\* C18 as claimed: after an accepted save the store reads back exactly the
\* address and the key that were given to the save.
C18_SaveReadsBackAsGiven ==
    (apiStep.op = "save" /\ apiStep.accepted) =>
        /\ ReadUrl = apiStep.url
        /\ ReadKey = apiStep.key

Spaces(n) == [i \in 1..n |-> " "]

\* core is the text c without the white space around it.
IsCoreOf(core, c) ==
    /\ core # <<>>
    /\ Head(core) # " "
    /\ core[Len(core)] # " "
    /\ \E i, j \in 0..Len(c) : c = Spaces(i) \o core \o Spaces(j)

\* C18, amended: after an accepted save the store reads back the key
\* without the white space around it, and the address without the white
\* space around it and without one slash at its end; a pair that has
\* neither reads back exactly as given.
C18_SaveReadsBackNormalised ==
    (apiStep.op = "save" /\ apiStep.accepted) =>
        /\ ReadKey.t = "text" /\ IsCoreOf(ReadKey.c, apiStep.key.c)
        /\ ReadUrl.t = "text"
        /\ \/ IsCoreOf(ReadUrl.c \o <<"/">>, apiStep.url.c)
           \/ /\ IsCoreOf(ReadUrl.c, apiStep.url.c)
              /\ ReadUrl.c[Len(ReadUrl.c)] # "/"
        /\ IsCoreOf(apiStep.key.c, apiStep.key.c) => ReadKey = apiStep.key
        /\ (/\ IsCoreOf(apiStep.url.c, apiStep.url.c)
            /\ apiStep.url.c[Len(apiStep.url.c)] # "/") => ReadUrl = apiStep.url

\* White space and a slash were typed around the address and the key.
C18_Witness ==
    /\ apiStep.op = "save" /\ apiStep.accepted
    /\ apiStep.url = Text(<<"a", "/">>)
    /\ apiStep.key = Text(<<" ", "k", " ">>)
    /\ ReadUrl = Text(<<"a">>)
    /\ ReadKey = Text(<<"k">>)

\* C20: once a key is stored a non-empty key stays stored, whatever the
\* page-load bootstrap, the first-run check, the heal, the settings
\* auto-save and saveConnection do; the backend address a page resolves is
\* never empty.
C20_KeyStaysStored ==
    /\ [][Truthy(apiKeyItem) => Truthy(apiKeyItem')]_vars
    /\ [](Truthy(ReadUrl) /\ Truthy(session.base))

\* A save with an empty key field was turned down, the stored key stays.
C20_Witness ==
    /\ apiStep.op = "save" /\ ~apiStep.accepted
    /\ ~Truthy(Trim(apiStep.key))
    /\ Truthy(apiKeyItem)

(***************************************************************************)
(* Properties of what a call settles with                                  *)
(***************************************************************************)
\* The text a response body offers under a name, Null when the body does
\* not parse or has no text there.
BodyText(body, name) ==
    IF body.parses /\ name \in DOMAIN body.json /\ body.json[name] # Str("")
    THEN body.json[name]
    ELSE Null

\* C21: a call that ends on a non-2xx response fails; the message of its
\* error is the detail of the body, else the message of the body, and is
\* "HTTP <status>" when the body does not parse or has neither.
C21_NonOkFailsWithBodyMessage ==
    (apiStep.op = "done" /\ ~Ok(apiStep.last.status)) =>
        LET body == apiStep.last.body
            expected ==
                IF BodyText(body, "detail") # Null THEN BodyText(body, "detail")
                ELSE IF BodyText(body, "message") # Null
                     THEN BodyText(body, "message")
                ELSE Str("HTTP " \o ToString(apiStep.last.status))
        IN  apiStep.outcome = [kind |-> "error", message |-> expected]

\* The retried request of a healed call was answered 404 with a body that
\* has both fields.
C21_Witness ==
    /\ apiStep.op = "done"
    /\ apiStep.n = 2
    /\ apiStep.last.status = 404
    /\ BodyText(apiStep.last.body, "detail") # Null
    /\ BodyText(apiStep.last.body, "message") # Null
    /\ apiStep.outcome = Thrown(Str("Invalid API key"))

\* C22: a call that ends on a 204 response returns and does not fail: null
\* from apiFetch, on the first request and on the retried one, and data
\* null beside the total from apiFetchWithCount.
C22_NoContentYieldsNull ==
    (apiStep.op = "done" /\ apiStep.last.status = 204) =>
        /\ apiStep.outcome.kind = "value"
        /\ apiStep.fn = "apiFetch" => apiStep.outcome.value = Null
        /\ apiStep.fn = "apiFetchWithCount" =>
               /\ DOMAIN apiStep.outcome.value = {"data", "total"}
               /\ apiStep.outcome.value.data = Null
               /\ apiStep.outcome.value.total = Num(0)

\* The retried request of a healed call was answered 204.
C22_Witness ==
    /\ apiStep.op = "done"
    /\ apiStep.n = 2
    /\ apiStep.last.status = 204
    /\ apiStep.outcome = Returned(Null)

\* C23: a call is sent again after a 401 only when the heal obtained a key
\* that differs from the one stored until then.
C23_RetryOnlyWithNewKey ==
    (apiStep.op = "send" /\ apiStep.n > 1) => apiStep.info # apiStep.before

(***************************************************************************)
(* Properties of the status indicator                                      *)
(***************************************************************************)

\* C24: from the opening of a stream the status stays "Connecting..." until
\* the connected event: a sync_complete, sync_error or heartbeat handled
\* while it is "Connecting..." leaves it so, and the connected event, and
\* only it, makes it "Live".
C24_ConnectingUntilConnected ==
    [][/\ (/\ status.text = "Connecting..."
           /\ lastOp'.op \in {"sync_complete", "sync_error", "heartbeat"})
          => status'.text = "Connecting..."
       /\ lastOp'.op = "connected" => status'.text = "Live"
       /\ (status.text # "Live" /\ status'.text = "Live")
          => lastOp'.op = "connected"]_vars

\* C25 as stated: while a stream is open the label is "Connecting...",
\* "Live" or "Synced <time>", and it is "Disconnected" exactly when a
\* stream has been opened and none is open now.
C25_StatusProjectsConnector ==
    /\ OpenStreams(streams) # {} =>
           status.text \in {"Connecting...", "Live", "Synced"}
    /\ status.text = "Disconnected" <=>
           (lastOp.op # "load" /\ OpenStreams(streams) = {})

\* C25, amended: while a stream is open the label is "Connecting...",
\* "Live", "Synced <time>" or "Sync error", whichever the opening or the
\* last sync event wrote, and it is "Disconnected" exactly when a stream has
\* been opened and none is open now.
C25_StatusFollowsLastWrite ==
    /\ OpenStreams(streams) # {} =>
           status.text \in {"Connecting...", "Live", "Synced", "Sync error"}
    /\ status.text = "Sync error" => status.state = "error"
    /\ status.text = "Disconnected" <=>
           (lastOp.op # "load" /\ OpenStreams(streams) = {})

\* A sync_error was handled on a stream that stays open, after an earlier
\* stream had failed and been replaced.
C25_Witness ==
    /\ lastOp.op = "sync_error"
    /\ status.text = "Sync error"
    /\ OpenStreams(streams) = {sse.n}
    /\ retryTimer # Null

\* The synced_at member of the payload of the i-th sync event received.
SyncedAt(i) ==
    LET data == received[i].data
    IN  data[CHOOSE k \in 1..Len(data) : data[k][1] = "synced_at"][2]

\* C26: every connector transition and every sync_complete writes the
\* status: "Connecting..." on an opening, "Live" on connected,
\* "Disconnected" on a transport failure, and right after a sync_complete
\* "Synced <time>" with the time taken from the synced_at of that event,
\* the last one received.
C26_StatusWrittenOnEveryStep ==
    /\ lastOp.op \in {"DOMContentLoaded", "company:changed", "retry"} =>
           (status.text = "Connecting..." /\ status.state = "syncing")
    /\ lastOp.op = "connected" => (status.text = "Live" /\ status.state = "")
    /\ lastOp.op = "error" =>
           (status.text = "Disconnected" /\ status.state = "error")
    /\ lastOp.op = "sync_complete" =>
           /\ received[Len(received)].type = "sync_complete"
           /\ status.text = "Synced"
           /\ status.state = ""
           /\ status.arg = Str(SyncedAt(Len(received)))

\* Two sync_complete events with different times: the label shows the time
\* of the second.
C26_Witness ==
    /\ lastOp.op = "sync_complete"
    /\ Len(received) = 2
    /\ received[1].type = "sync_complete"
    /\ SyncedAt(1) = "t2"
    /\ SyncedAt(2) = "t1"
    /\ status.arg = Str("t1")

\* C27: handling a heartbeat changes nothing: the status, the stream that
\* is open, the retry timer, the stored company, key and server address and
\* the notifications dispatched are what they were before it.
C27_HeartbeatChangesNothing ==
    [][lastOp'.op = "heartbeat" =>
          UNCHANGED <<status, sse, streams, retryTimer, timers, companyItem,
                      apiKeyItem, session, received, notified, started>>]_vars

\* A heartbeat handled on a stream still connecting while the retry timer
\* of an earlier failure is pending.
C27_Witness ==
    /\ lastOp.op = "heartbeat"
    /\ status.text = "Connecting..."
    /\ timers # {}
    /\ OpenStreams(streams) # {}

\* C28: the callback of a retry timer runs only when no stream is open: the
\* connectSSE it calls finds _sse null and has no stream to close.
C28_RetryOnlyWithoutStream ==
    lastOp.op = "retry" => lastOp.prev = Null

\* C29: once connectSSE has run for the first time, a stream is open or a
\* retry timer is pending.
C29_StreamOpenOrRetryPending ==
    lastOp.op # "load" => (OpenStreams(streams) # {} \/ timers # {})

\* No stream is open and the timers of two failures are both pending.
C29_Witness ==
    /\ lastOp.op = "error"
    /\ OpenStreams(streams) = {}
    /\ sse = Null
    /\ Cardinality(timers) = 2

\* The company the URL of a stream names: Null when it has no company_id.
ScopeOf(url) ==
    IF "company_id" \in DOMAIN url THEN ParseInt(url.company_id) ELSE Null

\* C30: the scope of every open stream is the company the store holds now:
\* its URL names that company, and has no company_id when the store holds
\* none.
C30_StreamScopeIsStoredCompany ==
    \A s \in OpenStreams(streams) :
        LET held == CompanyStore_get(companyItem)
        IN  /\ streams[s].url.path = SSE_PATH
            /\ IF Truthy(held)
               THEN ScopeOf(streams[s].url) = held
               ELSE "company_id" \notin DOMAIN streams[s].url

\* After sync events were received the selection was cleared, and the retry
\* timer of a failure has opened the stream that is open now, unscoped.
C30_Witness ==
    /\ lastOp.op = "retry"
    /\ companyItem = Null
    /\ OpenStreams(streams) = {sse.n}
    /\ "company_id" \notin DOMAIN streams[sse.n].url
    /\ Len(received) > 0

====
